---------------------------- MODULE Spec2Model ----------------------------
(***************************************************************************)
(* Model of clean_outliers (src/visualisation.py, lines 174-199), the      *)
(* interquartile-range outlier clipper of the visualisation script.        *)
(*                                                                         *)
(* Numbers.  The column holds real numbers.  With integer inputs every     *)
(* quartile is a multiple of 1/4 and every limit a multiple of 1/8, so one *)
(* call divides the unit by at most 8.  All numeric values are therefore   *)
(* kept as integers counting units of 1/Scale, Scale = 8^MaxCalls; these   *)
(* are dyadic rationals that binary floating point represents exactly, so  *)
(* the integer arithmetic below is the arithmetic the script performs.     *)
(* ExactArithmetic states that no division of the model ever rounds.       *)
(*                                                                         *)
(* Objects.  A pandas Series is a mutable object that Python passes by     *)
(* reference.  heap is the sequence of Series objects allocated so far     *)
(* (each one the sequence of its values); arg, column_data and ret are     *)
(* references, i.e. indices into heap (0 = no object).                     *)
(***************************************************************************)
EXTENDS Integers, Sequences, FiniteSets

\* ------------------------------------------------------------ bounds
MaxLen == 4
MaxVal == 3
MaxCalls == 2

Scale == 8 ^ MaxCalls

VARIABLES
    heap,          \* Series objects: heap[r] is the value sequence of object r
    text_at,       \* positions of the caller's column that hold a text token
    arg,           \* the object the caller passes to clean_outliers
    input,         \* the values of that object when the call started
    column_data,   \* the callee's parameter name: the object it is bound to
    q1, q3, iqr, lower_limit, upper_limit,   \* the callee's locals
    nan,           \* TRUE when the quantiles (hence the limits) are NaN
    pc,            \* the line the call has reached
    error,         \* the exception that left clean_outliers, "none" if none
    ret,           \* the object clean_outliers returned, 0 before it returns
    calls          \* number of calls started so far

vars == <<heap, text_at, arg, input, column_data, q1, q3, iqr, lower_limit,
          upper_limit, nan, pc, error, ret, calls>>

locals == <<q1, q3, iqr, lower_limit, upper_limit>>

\* ------------------------------------------------------------ inputs
Values == 0..MaxVal

\* The sample of the documented example.
Example == <<1, 2, 3, 4, 5, 100>>

SeqsUpTo(n) == UNION {[1..k -> Values] : k \in 0..n}

\* A column and the positions of it that hold text; a text position carries
\* no number (0 stands in its place and is never read).
NumericInputs == {<<s, {}>> : s \in SeqsUpTo(MaxLen) \cup {Example}}

TextInputs ==
    {p \in SeqsUpTo(MaxLen) \X SUBSET (1..MaxLen) :
        /\ p[2] # {}
        /\ p[2] \subseteq DOMAIN p[1]
        /\ \A i \in p[2] : p[1][i] = 0}

Inputs == NumericInputs \cup TextInputs

Scaled(s) == [i \in DOMAIN s |-> s[i] * Scale]

\* ------------------------------------------------------------ np.quantile
Insert(x, s) ==
    LET k == Cardinality({i \in DOMAIN s : s[i] < x})
    IN  SubSeq(s, 1, k) \o <<x>> \o SubSeq(s, k + 1, Len(s))

RECURSIVE Sort(_)
Sort(s) == IF Len(s) <= 1 THEN s ELSE Insert(Head(s), Sort(Tail(s)))

Min(a, b) == IF a <= b THEN a ELSE b

\* method='lower': the closest rank below, no interpolation.
QuantileLower(s, num) ==
    LET srt == Sort(s)
        previous == ((Len(s) - 1) * num) \div 4
    IN  srt[previous + 1]

\* np.quantile(s, num/4) with the default method 'linear': the virtual index
\* (n-1)*q of the sorted sample, interpolated between its two neighbours.
Quantile(s, num) ==
    LET srt == Sort(s)
        n == Len(s)
        virtual4 == (n - 1) * num            \* virtual index, in quarters
        previous == virtual4 \div 4
        gamma4 == virtual4 % 4               \* fractional part, in quarters
        next == Min(previous + 1, n - 1)
    IN  srt[previous + 1] + (gamma4 * (srt[next + 1] - srt[previous + 1])) \div 4

\* ------------------------------------------------------------ limits
\* q3 + q1: a sign slip.
IqrSum(a, b) == a + b

\* q1 - q3: the two quantiles unpacked in the wrong order.
IqrSwapped(a, b) == b - a

Iqr(a, b) == a - b

LowerLimit(q, r) == q - (3 * r) \div 2

UpperLimit(q, r) == q + (3 * r) \div 2

\* ------------------------------------------------------------ masks
\* A comparison with NaN is False in every row.
MaskGE(col, limit, isnan) == [i \in DOMAIN col |-> ~isnan /\ col[i] >= limit]

\* The comparison of line 194 pasted into line 197.
MaskLEPasted(col, limit, isnan) == [i \in DOMAIN col |-> ~isnan /\ col[i] >= limit]

MaskLE(col, limit, isnan) == [i \in DOMAIN col |-> ~isnan /\ col[i] <= limit]

\* ------------------------------------------------------------ Series.__setitem__
\* column_data = column_data.where(~mask, val): a new object, the name rebound.
SetItemCopy(h, ref, mask, val) ==
    [heap |-> Append(h, [i \in DOMAIN h[ref] |-> IF mask[i] THEN val ELSE h[ref][i]]),
     ref  |-> Len(h) + 1]

\* column_data = column_data[~mask]: the masked rows dropped, in place.
SetItemDrop(h, ref, mask, val) ==
    LET keep == {i \in DOMAIN h[ref] : ~mask[i]}
        F[k \in 0..Len(h[ref])] ==
            IF k = 0 THEN <<>>
            ELSE IF k \in keep THEN Append(F[k - 1], h[ref][k]) ELSE F[k - 1]
    IN  [heap |-> [h EXCEPT ![ref] = F[Len(h[ref])]], ref |-> ref]

\* column_data[:] = val: the mask forgotten.
SetItemAll(h, ref, mask, val) ==
    [heap |-> [h EXCEPT ![ref] = [i \in DOMAIN @ |-> val]], ref |-> ref]

\* column_data[mask] = val: the masked rows of the object itself are
\* overwritten; no object is allocated and the name stays bound to it.
SetItem(h, ref, mask, val) ==
    [heap |-> [h EXCEPT ![ref] = [i \in DOMAIN @ |-> IF mask[i] THEN val ELSE @[i]]],
     ref  |-> ref]

\* ------------------------------------------------------------ state
Col == heap[column_data]

Init ==
    /\ \E p \in Inputs :
          /\ heap = <<Scaled(p[1])>>
          /\ input = Scaled(p[1])
          /\ text_at = p[2]
    /\ arg = 1
    /\ column_data = 1
    /\ q1 = 0 /\ q3 = 0 /\ iqr = 0 /\ lower_limit = 0 /\ upper_limit = 0
    /\ nan = FALSE
    /\ pc = "quantile"
    /\ error = "none"
    /\ ret = 0
    /\ calls = 1

\* line 188, numeric non-empty column
QuantileOk ==
    /\ pc = "quantile"
    /\ text_at = {}
    /\ Len(Col) > 0
    /\ q3' = Quantile(Col, 3)
    /\ q1' = Quantile(Col, 1)
    /\ pc' = "limits"
    /\ UNCHANGED <<heap, text_at, arg, input, column_data, iqr, lower_limit,
                   upper_limit, nan, error, ret, calls>>

\* line 188, a text element: numpy cannot order or subtract it and raises
\* TypeError; clean_outliers has no handler, the exception leaves it.
QuantileTypeError ==
    /\ pc = "quantile"
    /\ text_at # {}
    /\ error' = "TypeError"
    /\ pc' = "raised"
    /\ UNCHANGED <<heap, text_at, arg, input, column_data, locals, nan, ret, calls>>

\* line 188, empty column: numpy >= 1.22 indexes the last element of the
\* partitioned sample and raises IndexError.
QuantileEmptyRaise ==
    /\ pc = "quantile"
    /\ text_at = {}
    /\ Len(Col) = 0
    /\ error' = "IndexError"
    /\ pc' = "raised"
    /\ UNCHANGED <<heap, text_at, arg, input, column_data, locals, nan, ret, calls>>

\* line 188, empty column: older numpy warns and returns NaN for both
\* quantiles.
QuantileEmptyNaN ==
    /\ pc = "quantile"
    /\ text_at = {}
    /\ Len(Col) = 0
    /\ nan' = TRUE
    /\ pc' = "limits"
    /\ UNCHANGED <<heap, text_at, arg, input, column_data, locals, error, ret, calls>>

\* lines 189-191 (with NaN quantiles the three results are NaN as well)
Limits ==
    /\ pc = "limits"
    /\ iqr' = IF nan THEN 0 ELSE Iqr(q3, q1)
    /\ lower_limit' = IF nan THEN 0 ELSE LowerLimit(q1, iqr')
    /\ upper_limit' = IF nan THEN 0 ELSE UpperLimit(q3, iqr')
    /\ pc' = "upper"
    /\ UNCHANGED <<heap, text_at, arg, input, column_data, q1, q3, nan, error,
                   ret, calls>>

\* line 194
ClampUpper ==
    /\ pc = "upper"
    /\ LET r == SetItem(heap, column_data, MaskGE(Col, upper_limit, nan), upper_limit)
       IN  /\ heap' = r.heap
           /\ column_data' = r.ref
    /\ pc' = "lower"
    /\ UNCHANGED <<text_at, arg, input, locals, nan, error, ret, calls>>

\* line 197
ClampLower ==
    /\ pc = "lower"
    /\ LET r == SetItem(heap, column_data, MaskLE(Col, lower_limit, nan), lower_limit)
       IN  /\ heap' = r.heap
           /\ column_data' = r.ref
    /\ pc' = "return"
    /\ UNCHANGED <<text_at, arg, input, locals, nan, error, ret, calls>>

\* line 199
Return ==
    /\ pc = "return"
    /\ ret' = column_data
    /\ pc' = "done"
    /\ UNCHANGED <<heap, text_at, arg, input, column_data, locals, nan, error, calls>>

\* The caller applies clean_outliers again, to the Series it got back.
Reapply ==
    /\ pc = "done"
    /\ ~nan
    /\ calls < MaxCalls
    /\ arg' = ret
    /\ column_data' = ret
    /\ input' = heap[ret]
    /\ q1' = 0 /\ q3' = 0 /\ iqr' = 0 /\ lower_limit' = 0 /\ upper_limit' = 0
    /\ ret' = 0
    /\ calls' = calls + 1
    /\ pc' = "quantile"
    /\ UNCHANGED <<heap, text_at, nan, error>>

Next ==
    \/ QuantileOk
    \/ QuantileTypeError
    \/ QuantileEmptyRaise
    \/ QuantileEmptyNaN
    \/ Limits
    \/ ClampUpper
    \/ ClampLower
    \/ Return
    \/ Reapply

Spec == Init /\ [][Next]_vars

\* ------------------------------------------------------------ sanity
TypeOK ==
    /\ heap \in Seq(Seq(Int))
    /\ arg \in DOMAIN heap
    /\ column_data \in DOMAIN heap
    /\ ret \in {0} \cup DOMAIN heap
    /\ text_at \subseteq DOMAIN heap[1]
    /\ input \in Seq(Int)
    /\ q1 \in Int /\ q3 \in Int /\ iqr \in Int
    /\ lower_limit \in Int /\ upper_limit \in Int
    /\ nan \in BOOLEAN
    /\ pc \in {"quantile", "limits", "upper", "lower", "return", "done", "raised"}
    /\ error \in {"none", "TypeError", "IndexError"}
    /\ calls \in 1..MaxCalls

\* No division of the model rounds: values entering call k are multiples of
\* 8^(MaxCalls-k+1), quartiles of a quarter of that, limits of an eighth.
ExactArithmetic ==
    LET unit == 8 ^ (MaxCalls - calls + 1)
    IN  /\ \A i \in DOMAIN input : input[i] % unit = 0
        /\ pc \in {"limits", "upper", "lower", "return", "done"} /\ ~nan =>
              /\ q1 % (unit \div 4) = 0
              /\ q3 % (unit \div 4) = 0
        /\ pc \in {"upper", "lower", "return", "done"} /\ ~nan =>
              /\ iqr % (unit \div 4) = 0
              /\ lower_limit % (unit \div 8) = 0
              /\ upper_limit % (unit \div 8) = 0

\* ------------------------------------------------------------ properties
Out == heap[ret]

\* A call on a non-empty numeric column has returned.
Finished == pc = "done" /\ ~nan

Q1Of(s) == Quantile(s, 1)

Q3Of(s) == Quantile(s, 3)

\* C1: for every non-empty numeric sequence S, every element of
\* clean_outliers(S) lies within [lower_limit, upper_limit], the limits being
\* Q1 - 1.5*IQR and Q3 + 1.5*IQR of the original, un-clamped S (they are
\* computed once and not recomputed between the two clamp steps).
OutputWithinLimits ==
    Finished =>
        /\ lower_limit = LowerLimit(Q1Of(input), Iqr(Q3Of(input), Q1Of(input)))
        /\ upper_limit = UpperLimit(Q3Of(input), Iqr(Q3Of(input), Q1Of(input)))
        /\ \A i \in DOMAIN Out : lower_limit <= Out[i] /\ Out[i] <= upper_limit

\* an upper outlier of a sample with a positive IQR has been clamped
WitnessOutlierClamped ==
    /\ Finished
    /\ calls = 1
    /\ iqr > 0
    /\ \E i \in DOMAIN input : input[i] > upper_limit /\ Out[i] = upper_limit

\* C2: for every index i the output element is exactly upper_limit if
\* S[i] >= upper_limit, exactly lower_limit if S[i] <= lower_limit, and S[i]
\* unchanged otherwise (strictly between the limits).
ElementwiseClamp ==
    Finished =>
        /\ DOMAIN Out = DOMAIN input
        /\ \A i \in DOMAIN input :
              /\ input[i] >= upper_limit => Out[i] = upper_limit
              /\ input[i] <= lower_limit => Out[i] = lower_limit
              /\ (lower_limit < input[i] /\ input[i] < upper_limit) => Out[i] = input[i]

\* a spread-out sample with one element exactly on a limit (clamped to the
\* value it has) and one strictly inside (left alone)
WitnessOnLimitAndInside ==
    /\ Finished
    /\ iqr > 0
    /\ \E j, k \in DOMAIN input :
          /\ lower_limit < input[j] /\ input[j] < upper_limit /\ Out[j] = input[j]
          /\ input[k] = upper_limit /\ Out[k] = upper_limit

\* C3: clean_outliers(S) has the length of S and keeps the order of the
\* elements: the output at i is the input at i or one of the two limits, and
\* the output never reverses the order of two input elements.
LengthAndOrderPreserved ==
    Finished =>
        /\ Len(Out) = Len(input)
        /\ \A i \in DOMAIN input : Out[i] \in {input[i], lower_limit, upper_limit}
        /\ \A i, j \in DOMAIN input : input[i] <= input[j] => Out[i] <= Out[j]

\* an unsorted column one element of which was clamped
WitnessUnsortedClamped ==
    /\ Finished
    /\ \E i, j \in DOMAIN input : i < j /\ input[i] > input[j]
    /\ \E k \in DOMAIN input : Out[k] # input[k]

\* C4, as stated: reapplying clean_outliers to its own output yields the same
\* sequence, clean_outliers(clean_outliers(S)) = clean_outliers(S).
ReapplyIsIdentity ==
    (pc = "done" /\ calls >= 2) => Out = input

\* C4, amended: a second application recomputes the limits from the clamped
\* column; it yields the same sequence exactly when every element of
\* clean_outliers(S) lies within the recomputed limits, and clamps further
\* otherwise.
ReapplyIsIdentityIffWithinNewLimits ==
    (pc = "done" /\ calls >= 2) =>
        ((Out = input) <=>
            \A i \in DOMAIN input :
                lower_limit <= input[i] /\ input[i] <= upper_limit)

\* a second application that left a spread-out, already clamped column alone
WitnessReapplyFixed ==
    /\ pc = "done"
    /\ calls >= 2
    /\ iqr > 0
    /\ Out = input
    /\ \E i \in DOMAIN input : input[i] = upper_limit

\* C5: for a non-empty sequence of identical values c, IQR = 0,
\* lower_limit = upper_limit = c and the output equals the input.
IdenticalValuesNoOp ==
    (Finished /\ \A i, j \in DOMAIN input : input[i] = input[j]) =>
        /\ iqr = 0
        /\ lower_limit = input[1]
        /\ upper_limit = input[1]
        /\ Out = input

WitnessIdenticalValues ==
    /\ Finished
    /\ calls = 1
    /\ Len(input) >= 3
    /\ input[1] > 0
    /\ \A i, j \in DOMAIN input : input[i] = input[j]

\* C6: quartiles interpolate linearly between the closest ranks of the sorted
\* sample: for [1, 2, 3, 4, 5, 100], Q1 = 2.25, Q3 = 4.75, IQR = 2.5,
\* lower_limit = -1.5, upper_limit = 8.5 and the result is
\* [1, 2, 3, 4, 5, 8.5].
ExampleQuartiles ==
    (Finished /\ input = Scaled(Example)) =>
        /\ 4 * q1 = 9 * Scale
        /\ 4 * q3 = 19 * Scale
        /\ 2 * iqr = 5 * Scale
        /\ 2 * lower_limit = (-3) * Scale
        /\ 2 * upper_limit = 17 * Scale
        /\ [i \in DOMAIN Out |-> 2 * Out[i]] = Scaled(<<2, 4, 6, 8, 10, 17>>)

WitnessExample ==
    Finished /\ calls = 1 /\ input = Scaled(Example) /\ Out # input

\* C7: on an empty sequence clean_outliers fails with EmptyInputError and
\* returns no result.
EmptyInputRaisesEmptyInputError ==
    (Len(input) = 0 /\ pc # "quantile") =>
        (pc = "raised" /\ error = "EmptyInputError")

\* C8: on a sequence with an element that is no real number clean_outliers
\* fails with InvalidInputError, which reaches the caller uncaught.
TextRaisesInvalidInputError ==
    (text_at # {} /\ pc # "quantile") =>
        (pc = "raised" /\ error = "InvalidInputError")

\* C9: clean_outliers mutates the container it is given and returns that
\* same container: after the call the caller's column holds the clamped
\* values, not the original ones, and is the returned sequence.
MutatesInPlaceReturnsSame ==
    Finished =>
        /\ ret = arg
        /\ Len(heap) = 1
        /\ heap[arg] = Out
        /\ \A i \in DOMAIN heap[arg] :
              lower_limit <= heap[arg][i] /\ heap[arg][i] <= upper_limit
        /\ (\E i \in DOMAIN input : input[i] < lower_limit \/ input[i] > upper_limit)
              => heap[arg] # input

WitnessCallerColumnChanged ==
    Finished /\ calls = 1 /\ heap[arg] # input

\* C10: lower_limit <= upper_limit, so the two clamp steps do not interfere:
\* an element the first step set to upper_limit is overwritten by the second
\* step only when the limits coincide, and the result of the two steps is
\* that of both rules applied at once to the original values.
ClampStepsDoNotInterfere ==
    /\ (pc \in {"upper", "lower", "return", "done"} /\ ~nan) =>
          lower_limit <= upper_limit
    /\ (pc = "lower" /\ ~nan) =>
          \A i \in DOMAIN input :
              (input[i] >= upper_limit /\ Col[i] <= lower_limit) =>
                  lower_limit = upper_limit
    /\ Finished =>
          Out = [i \in DOMAIN input |->
                    IF input[i] >= upper_limit THEN upper_limit
                    ELSE IF input[i] <= lower_limit THEN lower_limit
                    ELSE input[i]]

\* between the two steps: an element set by the first, out of the second's reach
WitnessBetweenSteps ==
    /\ pc = "lower"
    /\ \E i \in DOMAIN input :
          /\ input[i] > upper_limit
          /\ Col[i] = upper_limit
          /\ Col[i] > lower_limit

=============================================================================
